---- MODULE Spec2Model ----
(***************************************************************************)
(* Course page of the AI video course generator: the session controller    *)
(* (CoursePreview) and the generation orchestrator                         *)
(* (getCourseDetail / generateMissingContent) of                           *)
(* src/app/(routes)/course/[courseId]/page.tsx, together with the course    *)
(* store behind the /api/course, /api/generate-course-intro and            *)
(* /api/generate-video-content proxy routes.                               *)
(*                                                                         *)
(* JavaScript runs the page on one thread: a handler runs to its next      *)
(* await without interleaving, and the continuation of a settled promise   *)
(* (a microtask) runs before the next network response is delivered.  So   *)
(* one action is "a response arrives and the code runs up to the next      *)
(* requests it issues".                                                    *)
(***************************************************************************)
EXTENDS Integers, Sequences, FiniteSets, TLC

\* ---------------------------------------------------------------- bounds
NumCourses == 2        \* course identities the route parameter ranges over
NumChapters == 3       \* chapters of a course layout
MaxLoads == 3          \* runs of the courseId effect in one client session

Courses == 1..NumCourses
Passes == 1..MaxLoads

\* ------------------------------------------------------- program values
\* useParams() before the page is mounted / useState<Course | null>(null)
NoCourse == 0
\* err?.response?.status of an error without a response (network error, timeout)
NoStatus == 0
\* a 2xx answer: axios resolves the promise
StatusOk == 200
\* the status the chapter loop tests for (page.tsx:133)
StatusRateLimit == 429
\* any other failing status (the proxies default to 500)
StatusError == 500
Statuses == {NoStatus, StatusOk, StatusRateLimit, StatusError}

\* course.courseLayout.chapters: the ordered chapter ids of a course.  The
\* ids are not in ascending order, so layout order differs from id order.
Layout == [k \in 1..NumChapters |-> NumChapters + 1 - k]
ChapterIds == {Layout[k] : k \in 1..NumChapters}

\* A Course as the page reads it: courseIntroSlides is absent, an empty
\* list or a non-empty list; chapterContentSlide is read only through the
\* set of chapterIds of its slides.
IntroVals == {"absent", "empty", "present"}
Contents == [courseIntroSlides : IntroVals, chapterContentSlide : SUBSET ChapterIds]

\* contents with at most one gap (the intro, or the last chapter of the
\* layout), used by the session specification, where several loads are in
\* flight at once
SessionContents ==
  {ct \in Contents :
     \/ ct.courseIntroSlides = "present" /\ ChapterIds \ ct.chapterContentSlide \subseteq {Layout[NumChapters]}
     \/ ct.courseIntroSlides = "empty" /\ ct.chapterContentSlide = ChapterIds}

\* a course with nothing left to generate
FullContent == [courseIntroSlides |-> "present", chapterContentSlide |-> ChapterIds]

NullCourse ==
  [courseId |-> NoCourse, courseIntroSlides |-> "absent", chapterContentSlide |-> {}]

\* the Course object the service answers for course c with content ct
CourseOf(c, ct) ==
  [courseId |-> c, courseIntroSlides |-> ct.courseIntroSlides,
   chapterContentSlide |-> ct.chapterContentSlide]

\* requests issued by generateMissingContent
IntroCall == [kind |-> "intro", chapterId |-> 0]
ChapterCall(ch) == [kind |-> "chapter", chapterId |-> ch]
RefreshCall == [kind |-> "refresh", chapterId |-> 0]

\* useState<Record<string, number> | null>(null).  computeDurations never
\* yields an empty object, so the empty function stands for null.
NullMap == <<>>

VARIABLES
  courseId,           \* useParams().courseId of the latest render
  courseDetail,       \* useState: the committed course (NullCourse = null)
  generationStarted,  \* useRef: generationStarted.current
  server,             \* the course store of the generation service
  pass,               \* the getCourseDetail invocations of this session
  loadsLeft,          \* runs of the courseId effect still allowed
  introDurationBySlideId,    \* useState: committed intro duration map
  chapterDurationBySlideId,  \* useState: committed chapter duration map
  run,                \* the runs of the courseDetail effect (duration resolution)
  runsLeft,           \* runs of the courseDetail effect still allowed
  probesLeft,         \* getAudioData calls still allowed
  tl,                 \* a Player with its composition: slides, map, frame, output
  px,                 \* one request on its way through a proxy route
  hero                \* the course-request form of the home page

pageVars == <<courseId, courseDetail, generationStarted, server, pass, loadsLeft>>
durVars == <<introDurationBySlideId, chapterDurationBySlideId, run, runsLeft, probesLeft>>
vars == <<courseId, courseDetail, generationStarted, server, pass, loadsLeft,
          introDurationBySlideId, chapterDurationBySlideId, run, runsLeft, probesLeft,
          tl, px, hero>>

\* One invocation of getCourseDetail (one per run of the courseId effect),
\* with the locals of the generateMissingContent call it may make.
IdlePass ==
  [pc |-> "idle",            \* idle, fetch, gen, refresh, done
   courseId |-> NoCourse,    \* courseId captured by the closure
   course |-> NullCourse,    \* the course the initial fetch returned
   started |-> FALSE,        \* generateMissingContent was called
   epoch |-> 0,              \* effect runs so far when it was called
   needsIntro |-> FALSE,
   missingChapters |-> <<>>,
   introPending |-> FALSE,   \* the intro task awaits its response
   idx |-> 0,                \* position of the chapter loop, 0 = not running
   statuses |-> <<>>,        \* answers to the chapter requests, in order
   calls |-> <<>>,           \* requests issued by generateMissingContent
   fetchToast |-> "none",    \* toast t of getCourseDetail: loading, success, error
   refreshToast |-> "none"]  \* toast t of the final refresh

\* ------------------------------------------------------------- helpers
ChapterCalls(p) == SelectSeq(p.calls, LAMBDA r : r.kind = "chapter")
RefreshCalls(p) == SelectSeq(p.calls, LAMBDA r : r.kind = "refresh")
IntroCalls(p) == SelectSeq(p.calls, LAMBDA r : r.kind = "intro")

\* a generate-video-content request of p has no answer yet
ChapterInFlight(p) == Len(ChapterCalls(p)) > Len(p.statuses)
NumChaptersInFlight(p) == Len(ChapterCalls(p)) - Len(p.statuses)

\* number of runs of the courseId effect so far
Epoch == Cardinality({i \in Passes : pass[i].pc # "idle"})
FreePass == CHOOSE i \in Passes : pass[i].pc = "idle" /\ \A j \in Passes : j < i => pass[j].pc # "idle"

\* ---------------------------------------------------- gap detection
\* page.tsx:89-91
generatedChapterIds(course) == course.chapterContentSlide

\* page.tsx:92-94: filter keeps layout order
missingChapters(course) ==
  SelectSeq(Layout, LAMBDA ch : ch \notin generatedChapterIds(course))

\* page.tsx:95: !course.courseIntroSlides?.length
needsIntro_EmptyOnly(course) == course.courseIntroSlides = "empty"
needsIntro(course) == course.courseIntroSlides \in {"absent", "empty"}

\* page.tsx:98: the early return
NothingMissing_Never(ni, missing) == FALSE
NothingMissing(ni, missing) == ~ni /\ Len(missing) = 0

\* ---------------------------------------------------- task launch
\* page.tsx:102-117: the intro task runs to its await when it is created
IntroLaunch(ni) == IF ni THEN <<IntroCall>> ELSE <<>>

\* page.tsx:119-129: the chapter task runs to the await of its first request
ChapterLaunch_Parallel(missing) ==
  [k \in 1..Len(missing) |-> ChapterCall(missing[k])]
ChapterLaunch(missing) ==
  IF Len(missing) > 0 THEN <<ChapterCall(missing[1])>> ELSE <<>>

\* page.tsx:131-141: does the for loop go on after this answer?
\* (a success falls through to the next iteration, 429 breaks, any other
\* error is reported and the loop goes on)
LoopContinues_NoBreak(p, status) == TRUE
LoopContinues_StopOnError(p, status) == status = StatusOk
LoopContinues_NeedsIntroOk(p, status) ==
  status # StatusRateLimit /\ (p.needsIntro => p.introPending)
LoopContinues(p, status) == status # StatusRateLimit

\* page.tsx:123: the next iteration of for (const chapter of missingChapters)
NextIndex_Retry(p, status) == IF status = StatusError THEN p.idx ELSE p.idx + 1
NextIndex(p, status) == p.idx + 1

\* page.tsx:147: await Promise.all(tasks)
JoinReady_Race(p) == ~p.introPending \/ p.idx = 0
JoinReady(p) == ~p.introPending /\ p.idx = 0

\* page.tsx:147-153: once the tasks have settled the refresh is requested
Join(p) ==
  IF p.pc = "gen" /\ JoinReady(p)
  THEN [p EXCEPT !.pc = "refresh", !.calls = Append(@, RefreshCall),
                 !.refreshToast = "loading"]
  ELSE p

\* page.tsx:87-147: generateMissingContent up to its first await
generateMissingContent(p, course, epoch) ==
  LET missing == missingChapters(course)
      ni == needsIntro(course)
      q == [p EXCEPT !.started = TRUE, !.epoch = epoch,
                     !.needsIntro = ni, !.missingChapters = missing]
  IN IF NothingMissing(ni, missing)
     THEN [q EXCEPT !.pc = "done"]
     ELSE Join([q EXCEPT !.pc = "gen",
                         !.introPending = (IntroLaunch(ni) # <<>>),
                         !.idx = IF ChapterLaunch(missing) # <<>> THEN 1 ELSE 0,
                         !.calls = IntroLaunch(ni) \o ChapterLaunch(missing)])

\* page.tsx:76: if (!generationStarted.current)
GuardOpen_Always(flag) == TRUE
GuardOpen(flag) == ~flag

\* page.tsx:72 and 154: setCourseDetail of a fetched course.  The closure's
\* courseId is not compared with the page's current courseId.
Commit_KeepIntro(current, course, old) ==
  [course EXCEPT !.courseIntroSlides = old.courseIntroSlides]
Commit(current, course, old) == course

\* ------------------------------------------------------------- actions
\* page.tsx:27-33 and 67-70: the route parameter changes (or the page is
\* mounted), the effect resets the state and calls getCourseDetail, which
\* issues the course fetch.
CourseIdEffect(c) ==
  /\ loadsLeft > 0
  /\ c # courseId
  /\ courseId' = c
  /\ courseDetail' = NullCourse
  /\ generationStarted' = FALSE
  /\ pass' = [pass EXCEPT ![FreePass] =
                [IdlePass EXCEPT !.pc = "fetch", !.courseId = c,
                                 !.fetchToast = "loading"]]
  /\ loadsLeft' = loadsLeft - 1
  /\ introDurationBySlideId' = NullMap
  /\ chapterDurationBySlideId' = NullMap
  /\ UNCHANGED <<server, run, runsLeft, probesLeft, tl, px, hero>>

\* page.tsx:70-79: the initial fetch succeeds
FetchDone(i) ==
  /\ pass[i].pc = "fetch"
  /\ LET p == pass[i]
         course == CourseOf(p.courseId, server[p.courseId])
         q == [p EXCEPT !.course = course, !.fetchToast = "success"]
     IN /\ courseDetail' = Commit(courseId, course, courseDetail)
        /\ IF GuardOpen(generationStarted)
           THEN /\ generationStarted' = TRUE
                /\ pass' = [pass EXCEPT ![i] = generateMissingContent(q, course, Epoch)]
           ELSE /\ generationStarted' = generationStarted
                /\ pass' = [pass EXCEPT ![i] = [q EXCEPT !.pc = "done"]]
  /\ UNCHANGED <<courseId, server, loadsLeft, durVars, tl, px, hero>>

\* page.tsx:80-82: the catch of getCourseDetail reports the failure and
\* the invocation ends
OnFetchError_Retry(p) == [p EXCEPT !.fetchToast = "error"]
OnFetchError(p) == [p EXCEPT !.pc = "done", !.fetchToast = "error"]

\* page.tsx:156-158: the catch of the final refresh
OnRefreshError(p) == [p EXCEPT !.pc = "done", !.refreshToast = "error"]

\* page.tsx:80-82: the initial fetch fails
FetchFailed(i) ==
  /\ pass[i].pc = "fetch"
  /\ pass' = [pass EXCEPT ![i] = OnFetchError(pass[i])]
  /\ UNCHANGED <<courseId, courseDetail, generationStarted, server, loadsLeft, durVars, tl, px, hero>>

\* page.tsx:106-114: the intro request is answered; both outcomes end the task
IntroDone(i, status) ==
  /\ pass[i].introPending
  /\ pass' = [pass EXCEPT ![i] = Join([pass[i] EXCEPT !.introPending = FALSE])]
  /\ server' = IF status = StatusOk
               THEN [server EXCEPT ![pass[i].courseId].courseIntroSlides = "present"]
               ELSE server
  /\ UNCHANGED <<courseId, courseDetail, generationStarted, loadsLeft, durVars, tl, px, hero>>

\* page.tsx:123-142: a chapter request is answered
ChapterDone(i, status) ==
  /\ ChapterInFlight(pass[i])
  /\ LET p == pass[i]
         answered == ChapterCalls(p)[Len(p.statuses) + 1].chapterId
         q == [p EXCEPT !.statuses = Append(@, status)]
         next == NextIndex(p, status)
         r == IF p.idx > 0 /\ LoopContinues(p, status) /\ next <= Len(p.missingChapters)
              THEN [q EXCEPT !.idx = next,
                             !.calls = Append(@, ChapterCall(p.missingChapters[next]))]
              ELSE [q EXCEPT !.idx = 0]
     IN /\ pass' = [pass EXCEPT ![i] = Join(r)]
        /\ server' = IF status = StatusOk
                     THEN [server EXCEPT ![p.courseId].chapterContentSlide = @ \cup {answered}]
                     ELSE server
  /\ UNCHANGED <<courseId, courseDetail, generationStarted, loadsLeft, durVars, tl, px, hero>>

\* page.tsx:153-155: the refresh sets the course and reports success; it does
\* not go through getCourseDetail again
OnRefreshSuccess_Refetch(p) ==
  [p EXCEPT !.pc = "fetch", !.refreshToast = "success"]
OnRefreshSuccess(p) == [p EXCEPT !.pc = "done", !.refreshToast = "success"]

\* page.tsx:153-155: the final refresh succeeds
RefreshDone(i) ==
  /\ pass[i].pc = "refresh"
  /\ courseDetail' = Commit(courseId,
                            CourseOf(pass[i].courseId, server[pass[i].courseId]),
                            courseDetail)
  /\ pass' = [pass EXCEPT ![i] = OnRefreshSuccess(pass[i])]
  /\ UNCHANGED <<courseId, generationStarted, server, loadsLeft, durVars, tl, px, hero>>

\* page.tsx:156-158: the final refresh fails
RefreshFailed(i) ==
  /\ pass[i].pc = "refresh"
  /\ pass' = [pass EXCEPT ![i] = OnRefreshError(pass[i])]
  /\ UNCHANGED <<courseId, courseDetail, generationStarted, server, loadsLeft, durVars, tl, px, hero>>

\* The courses start out alike, so a course the page has not visited yet is
\* named by the least id not yet visited.
Visited == {pass[i].courseId : i \in {j \in Passes : pass[j].pc # "idle"}}
Visitable == {c \in Courses : \A d \in Courses : d < c => d \in Visited}

Next ==
  \/ \E c \in Visitable : CourseIdEffect(c)
  \/ \E i \in Passes : FetchDone(i)
  \/ \E i \in Passes : FetchFailed(i)
  \/ \E i \in Passes, status \in Statuses : IntroDone(i, status)
  \/ \E i \in Passes, status \in Statuses : ChapterDone(i, status)
  \/ \E i \in Passes : RefreshDone(i)
  \/ \E i \in Passes : RefreshFailed(i)

(***************************************************************************)
(* Duration resolution: the courseDetail effect of page.tsx measures the   *)
(* audio of every slide of the committed course and commits one duration   *)
(* map per slide set.  Audio lengths are counted in hundredths of a second.*)
(***************************************************************************)
MaxProbed == 2        \* slides per slide set of a probed course
MaxRuns == 2          \* runs of the courseDetail effect
Runs == 1..MaxRuns

FPS == 30

\* audio lengths getAudioData reports, in hundredths of a second
ProbeSeconds == {0, 1, 5, 230}

\* a slide of a probed set: its slideId and whether it has an audioFileUrl
AudioSlides(n) == [k \in 1..n |-> {[slideId |-> k, audioFileUrl |-> a] : a \in {"absent", "url"}}]
RECURSIVE SeqsOver(_, _)
SeqsOver(choices, n) ==
  IF n = 0 THEN {<<>>}
  ELSE {Append(s, x) : s \in SeqsOver(choices, n - 1), x \in choices[n]}
AudioSlideSets == UNION {SeqsOver(AudioSlides(n), n) : n \in 0..MaxProbed}

\* the promise of one getAudioData call
Pending == [st |-> "pending", cs |-> 0]
Resolved(cs) == [st |-> "resolved", cs |-> cs]
Rejected == [st |-> "rejected", cs |-> 0]

IdleRun ==
  [state |-> "idle",            \* idle, running, done, rejected
   intro |-> <<>>,              \* courseDetail.courseIntroSlides || []
   chapter |-> <<>>,            \* courseDetail.chapterContentSlide || []
   introProbe |-> <<>>,         \* the getAudioData promises of the intro slides
   chapterProbe |-> <<>>,       \* the getAudioData promises of the chapter slides
   introDurations |-> NullMap,  \* what computeDurations resolved to
   chapterDurations |-> NullMap]

FreeRun == CHOOSE r \in Runs : run[r].state = "idle" /\ \A q \in 1..(r - 1) : run[q].state # "idle"

\* Math.round of the non-negative quotient num / den
MathRound_Floor(num, den) == num \div den
MathRound(num, den) == (2 * num + den) \div (2 * den)

MathMax(a, b) == IF a >= b THEN a ELSE b

\* page.tsx:55-58: Math.max(1, Math.round(audioData.durationInSeconds * FPS))
frames(cs) == MathMax(1, MathRound(cs * FPS, 100))

\* page.tsx:49-64: null for an empty set, else one entry per resolved probe
computeDurations(slides, probes) ==
  IF Len(slides) = 0 THEN NullMap
  ELSE [id \in {slides[k].slideId : k \in {j \in 1..Len(slides) : probes[j].st = "resolved"}} |->
          LET k == CHOOSE j \in 1..Len(slides) : slides[j].slideId = id
          IN frames(probes[k].cs)]

\* page.tsx:39-42, 53-60: both Promise.all joins are fulfilled once every
\* probe of both sets is resolved
Fulfilled_FirstProbe(q) ==
  \/ \E k \in 1..Len(q.introProbe) : q.introProbe[k].st = "resolved"
  \/ \E k \in 1..Len(q.chapterProbe) : q.chapterProbe[k].st = "resolved"
Fulfilled(q) ==
  /\ \A k \in 1..Len(q.introProbe) : q.introProbe[k].st = "resolved"
  /\ \A k \in 1..Len(q.chapterProbe) : q.chapterProbe[k].st = "resolved"

\* page.tsx:39-42: the continuation of run() after the await
Resume(q) ==
  IF Fulfilled(q)
  THEN [q EXCEPT !.state = "done",
                 !.introDurations = computeDurations(q.intro, q.introProbe),
                 !.chapterDurations = computeDurations(q.chapter, q.chapterProbe)]
  ELSE q

\* page.tsx:43-44: if (introDurations) set...; if (chapterDurations) set...
CommitDurations(q, durations, old) ==
  IF q.state = "done" /\ durations # NullMap THEN durations ELSE old

ProbesOf(q, set) == IF set = "intro" THEN q.introProbe ELSE q.chapterProbe
SlidesOf(q, set) == IF set = "intro" THEN q.intro ELSE q.chapter
WithProbe(q, set, k, pr) ==
  IF set = "intro" THEN [q EXCEPT !.introProbe[k] = pr]
  ELSE [q EXCEPT !.chapterProbe[k] = pr]

\* page.tsx:36-47: the effect runs for a committed course and starts one
\* probe per slide of both sets
CourseDetailEffect(r, intro, chapter) ==
  /\ runsLeft > 0
  /\ Len(intro) + Len(chapter) <= probesLeft
  /\ \E x \in Runs : run[x].state = "idle"
  /\ r = FreeRun
  /\ LET q == Resume([IdleRun EXCEPT !.state = "running",
                                     !.intro = intro,
                                     !.chapter = chapter,
                                     !.introProbe = [k \in 1..Len(intro) |-> Pending],
                                     !.chapterProbe = [k \in 1..Len(chapter) |-> Pending]])
     IN /\ run' = [run EXCEPT ![r] = q]
        /\ introDurationBySlideId' = CommitDurations(q, q.introDurations, introDurationBySlideId)
        /\ chapterDurationBySlideId' = CommitDurations(q, q.chapterDurations, chapterDurationBySlideId)
  /\ runsLeft' = runsLeft - 1
  /\ probesLeft' = probesLeft - (Len(intro) + Len(chapter))
  /\ UNCHANGED <<pageVars, tl, px, hero>>

\* page.tsx:54-58: getAudioData resolves with the length of the audio
ProbeResolved(r, set, k, cs) ==
  /\ run[r].state = "running"
  /\ k \in 1..Len(ProbesOf(run[r], set))
  /\ ProbesOf(run[r], set)[k] = Pending
  /\ SlidesOf(run[r], set)[k].audioFileUrl = "url"
  /\ LET q == Resume(WithProbe(run[r], set, k, Resolved(cs)))
     IN /\ run' = [run EXCEPT ![r] = q]
        /\ introDurationBySlideId' = CommitDurations(q, q.introDurations, introDurationBySlideId)
        /\ chapterDurationBySlideId' = CommitDurations(q, q.chapterDurations, chapterDurationBySlideId)
  /\ UNCHANGED <<pageVars, runsLeft, probesLeft, tl, px, hero>>

\* page.tsx:54: getAudioData rejects (a slide without audioFileUrl is probed
\* at the empty URL, which is no audio file); nothing catches, so both
\* Promise.all joins and run() reject
ProbeRejected(r, set, k) ==
  /\ run[r].state = "running"
  /\ k \in 1..Len(ProbesOf(run[r], set))
  /\ ProbesOf(run[r], set)[k] = Pending
  /\ run' = [run EXCEPT ![r] = [WithProbe(run[r], set, k, Rejected) EXCEPT !.state = "rejected"]]
  /\ UNCHANGED <<pageVars, introDurationBySlideId, chapterDurationBySlideId, runsLeft,
                 probesLeft, tl, px, hero>>

NextDurations ==
  \/ \E r \in Runs, intro \in AudioSlideSets, chapter \in AudioSlideSets :
       CourseDetailEffect(r, intro, chapter)
  \/ \E r \in Runs, set \in {"intro", "chapter"}, k \in 1..MaxProbed, cs \in ProbeSeconds :
       ProbeResolved(r, set, k, cs)
  \/ \E r \in Runs, set \in {"intro", "chapter"}, k \in 1..MaxProbed :
       ProbeRejected(r, set, k)

\* the page before any course is committed
InitDurations ==
  /\ introDurationBySlideId = NullMap
  /\ chapterDurationBySlideId = NullMap
  /\ run = [r \in Runs |-> IdleRun]

(***************************************************************************)
(* The Player and its composition: the session computes the length of the  *)
(* video, the composition finds the slide and the caption of each frame.   *)
(* Caption times are counted in hundredths of a second.                    *)
(***************************************************************************)
MaxSlides == 3        \* slides of the slide set handed to a Player
MaxChunks == 2        \* caption chunks of a slide
Overrun == 2          \* frames past the end of the video that are rendered

\* durations found in a duration map, in frames
MapFrames == {1, 2}
\* the duration, in frames, of a slide whose captions are followed
CaptionFrames == 90

\* CaptionChunk.start / end are optional
Undefined == 0 - 1
ChunkStarts == {Undefined, 5, 100}
ChunkEnds == {Undefined, 100, 200}

\* the chapterIds of the slides of a set
SlideChapters == {1, 2}
\* the Player of the whole slide set, as opposed to the Player of one chapter
WholeSet == 0

PlainSlides(n) == [k \in 1..n |-> {[slideId |-> k, chapterId |-> c, chunks |-> <<>>] : c \in SlideChapters}]
SlideSets == UNION {SeqsOver(PlainSlides(n), n) : n \in 1..MaxSlides}
SlideIds(slides) == {slides[k].slideId : k \in 1..Len(slides)}

\* duration maps of a slide set: non-null, entries may be missing
DurationMaps(slides) == UNION {[D -> MapFrames] : D \in (SUBSET SlideIds(slides)) \ {{}}}

\* slide.caption.chunks; a slide without caption has no chunks.  The text
\* of a chunk is named by a number, the chunk's position.
Chunks(n) == [k \in 1..n |-> {[text |-> k, start |-> st, end |-> en] : st \in ChunkStarts, en \in ChunkEnds}]
ChunkLists == UNION {SeqsOver(Chunks(n), n) : n \in 0..MaxChunks}
\* the caption text shown when no chunk is found
NoCaption == 0

\* slide sets whose last slide has captions
CaptionedSets ==
  {<<[slideId |-> 1, chapterId |-> 1, chunks |-> ch]>> : ch \in ChunkLists}
  \cup {<<[slideId |-> 1, chapterId |-> 1, chunks |-> <<>>],
          [slideId |-> 2, chapterId |-> 1, chunks |-> ch]>> : ch \in ChunkLists}
CaptionedMap(slides) ==
  [id \in SlideIds(slides) |-> IF id = Len(slides) THEN CaptionFrames ELSE 2]

\* durationBySlideId[slide.slideId] || default
FramesOr(durationBySlideId, slideId, default) ==
  IF slideId \in DOMAIN durationBySlideId /\ durationBySlideId[slideId] # 0
  THEN durationBySlideId[slideId]
  ELSE default

\* page.tsx:226, ChapterVideo.tsx:16
ComposerDefault == 180

\* page.tsx:164, 174, CourseListCard.tsx:85: FPS * 6
SessionDefault_FiveSeconds == FPS * 5
SessionDefault == FPS * 6

\* page.tsx:227: if (frame < cumulative + dur)
InSlide_Inclusive(frame, cumulative, dur) == frame <= cumulative + dur
InSlide(frame, cumulative, dur) == frame < cumulative + dur

\* page.tsx:241: localFrame of a frame past the end
ClampedLocalFrame_Unclamped(lastDur) == lastDur
ClampedLocalFrame(lastDur) == lastDur - 1

\* page.tsx:220-246: the loop of getSlideAtFrame from slide i on; the slide
\* is named by its position in slides
RECURSIVE SlideAtFrameFrom(_, _, _, _, _)
SlideAtFrameFrom(frame, slides, durationBySlideId, i, cumulative) ==
  IF i > Len(slides)
  THEN LET lastDur == FramesOr(durationBySlideId, slides[Len(slides)].slideId, ComposerDefault)
       IN [slide |-> Len(slides),
           localFrame |-> ClampedLocalFrame(lastDur),
           duration |-> lastDur,
           startFrame |-> cumulative - lastDur]
  ELSE LET dur == FramesOr(durationBySlideId, slides[i].slideId, ComposerDefault)
       IN IF InSlide(frame, cumulative, dur)
          THEN [slide |-> i,
                localFrame |-> frame - cumulative,
                duration |-> dur,
                startFrame |-> cumulative]
          ELSE SlideAtFrameFrom(frame, slides, durationBySlideId, i + 1, cumulative + dur)

getSlideAtFrame(frame, slides, durationBySlideId) ==
  SlideAtFrameFrom(frame, slides, durationBySlideId, 1, 0)

\* page.tsx:283-287: the predicate of chunks.find, with currentTime =
\* localFrame / fps
ChunkCovers_EndExclusive(chunk, localFrame, fps) ==
  /\ chunk.start # Undefined
  /\ chunk.end # Undefined
  /\ localFrame * 100 >= chunk.start * fps
  /\ localFrame * 100 < chunk.end * fps
ChunkCovers(chunk, localFrame, fps) ==
  /\ chunk.start # Undefined
  /\ chunk.end # Undefined
  /\ localFrame * 100 >= chunk.start * fps
  /\ localFrame * 100 <= chunk.end * fps

\* page.tsx:280-288: chunks.find(...)?.text || ""
RECURSIVE FindCaption(_, _, _, _)
FindCaption(chunks, localFrame, fps, i) ==
  IF i > Len(chunks) THEN NoCaption
  ELSE IF ChunkCovers(chunks[i], localFrame, fps) THEN chunks[i].text
  ELSE FindCaption(chunks, localFrame, fps, i + 1)

currentCaption(slide, localFrame, fps) == FindCaption(slide.chunks, localFrame, fps, 1)

\* the reduce of page.tsx:163-166, 172-176 and CourseListCard.tsx:84-87
RECURSIVE SumFrames(_, _, _)
SumFrames(slides, durationBySlideId, i) ==
  IF i > Len(slides) THEN 0
  ELSE FramesOr(durationBySlideId, slides[i].slideId, SessionDefault)
         + SumFrames(slides, durationBySlideId, i + 1)

\* page.tsx:161-167 (and 169-177 for the chapter slides)
introDurationInFrames(slides, durationBySlideId) ==
  IF durationBySlideId = NullMap THEN 30
  ELSE SumFrames(slides, durationBySlideId, 1)

\* CourseListCard.tsx:83: slides.filter((s) => s.chapterId === chapterId)
ChapterSlides(slides, chapterId) ==
  SelectSeq(slides, LAMBDA sl : sl.chapterId = chapterId)

\* CourseListCard.tsx:78-88
getChapterDuration(slides, durationBySlideId, chapterId) ==
  IF durationBySlideId = NullMap THEN 30
  ELSE LET sum == SumFrames(ChapterSlides(slides, chapterId), durationBySlideId, 1)
       IN IF sum = 0 THEN 30 ELSE sum

\* ChapterVideo.tsx:132-144: one Sequence per slide, starting where the
\* slides before it end; the slide is named by its position in slides
RECURSIVE SlideSequencesFrom(_, _, _, _)
SlideSequencesFrom(slides, durationBySlideId, i, cumulativeFrame) ==
  IF i > Len(slides) THEN <<>>
  ELSE LET duration == FramesOr(durationBySlideId, slides[i].slideId, ComposerDefault)
       IN <<[slide |-> i, from |-> cumulativeFrame, durationInFrames |-> duration]>>
          \o SlideSequencesFrom(slides, durationBySlideId, i + 1, cumulativeFrame + duration)

slideSequences(slides, durationBySlideId) ==
  SlideSequencesFrom(slides, durationBySlideId, 1, 0)

\* ChapterVideo.tsx:148-154: a Sequence renders its children from its first
\* frame on, for durationInFrames frames
SequenceMounted(seq, frame) ==
  frame >= seq.from /\ frame < seq.from + seq.durationInFrames

\* ChapterVideo.tsx:26: useCurrentFrame() inside a Sequence counts from the
\* first frame of the Sequence
SequenceFrame_Global(seq, frame) == frame
SequenceFrame(seq, frame) == frame - seq.from

\* ChapterVideo.tsx:29-40: the caption loop of SlideContent, with
\* currentTime = frame / fps
RECURSIVE SlideContentCaption(_, _, _, _)
SlideContentCaption(captionChunks, frame, fps, i) ==
  IF i > Len(captionChunks) THEN NoCaption
  ELSE LET chunk == captionChunks[i]
       IN IF /\ chunk.start # Undefined /\ chunk.end # Undefined
             /\ frame * 100 >= chunk.start * fps
             /\ frame * 100 <= chunk.end * fps
          THEN chunk.text
          ELSE SlideContentCaption(captionChunks, frame, fps, i + 1)

\* ChapterVideo.tsx:108-159: what CourseComposition shows at a frame: the
\* slide, the local frame and the caption of every Sequence that renders
CourseComposition(slides, durationBySlideId, frame, fps) ==
  LET seqs == slideSequences(slides, durationBySlideId)
  IN {[slide |-> seqs[k].slide,
       localFrame |-> SequenceFrame(seqs[k], frame),
       caption |-> SlideContentCaption(slides[seqs[k].slide].chunks,
                                       SequenceFrame(seqs[k], frame), fps, 1)] :
        k \in {j \in 1..Len(seqs) : SequenceMounted(seqs[j], frame)}}

NoSlide == [slide |-> 0, localFrame |-> 0, duration |-> 0, startFrame |-> 0]

\* no Player is mounted
NoPlayer ==
  [course |-> <<>>,               \* the slide set of the course
   durationBySlideId |-> NullMap, \* its committed duration map
   mounted |-> FALSE,
   slides |-> <<>>,               \* inputProps.slides of the Player
   durationInFrames |-> 0,        \* durationInFrames of the Player
   frame |-> 0,                   \* useCurrentFrame()
   at |-> NoSlide,                \* what getSlideAtFrame returned
   caption |-> NoCaption,         \* currentCaption
   sequences |-> {}]              \* what CourseComposition of ChapterVideo.tsx shows

\* page.tsx:248-288 and ChapterVideo.tsx:108-159: both compositions render
\* the current frame
Render(p) ==
  LET at == getSlideAtFrame(p.frame, p.slides, p.durationBySlideId)
  IN [p EXCEPT !.at = at,
               !.caption = currentCaption(p.slides[at.slide], at.localFrame, FPS),
               !.sequences = CourseComposition(p.slides, p.durationBySlideId, p.frame, FPS)]

\* CourseListCard.tsx:78-88, 170-190 and page.tsx:161-167: a Player is
\* rendered for the whole set or for the slides of one chapter, once the
\* duration map is there and the Player has slides
MountPlayer(which) ==
  /\ ~tl.mounted
  /\ tl.durationBySlideId # NullMap
  /\ LET slides == IF which = WholeSet THEN tl.course ELSE ChapterSlides(tl.course, which)
         total == IF which = WholeSet
                  THEN introDurationInFrames(tl.course, tl.durationBySlideId)
                  ELSE getChapterDuration(tl.course, tl.durationBySlideId, which)
     IN /\ Len(slides) > 0
        /\ tl' = Render([tl EXCEPT !.mounted = TRUE,
                                   !.slides = slides,
                                   !.durationInFrames = total,
                                   !.frame = 0])
  /\ UNCHANGED <<pageVars, durVars, px, hero>>

\* the Player advances to the next frame
NextFrame ==
  /\ tl.mounted
  /\ tl.frame < tl.durationInFrames - 1 + Overrun
  /\ tl' = Render([tl EXCEPT !.frame = @ + 1])
  /\ UNCHANGED <<pageVars, durVars, px, hero>>

NextTimeline ==
  \/ \E which \in {WholeSet} \cup SlideChapters : MountPlayer(which)
  \/ NextFrame


(***************************************************************************)
(* The proxy routes: one request from a client through a route to the      *)
(* generation service and back to the notification the client shows.       *)
(***************************************************************************)
StatusBadRequest == 400
StatusUnauthorized == 401
StatusForbidden == 403
StatusValidation == 422

\* the route handlers; the layout route exists in two versions
CourseRoute == "course"
LayoutRoute == "generate-course-layout"
LayoutRouteB == "generate-course-layout (part_000)"
IntroRoute == "generate-course-intro"
VideoRoute == "generate-video-content"
UserRoute == "user"
Routes == {CourseRoute, LayoutRoute, LayoutRouteB, IntroRoute, VideoRoute, UserRoute}

\* currentUser(): null, or a user with or without a primary e-mail address
NullUser == [signedIn |-> FALSE, email |-> "absent"]
Users == {NullUser,
          [signedIn |-> TRUE, email |-> "absent"],
          [signedIn |-> TRUE, email |-> "user@mail"]}

\* the request body: well-formed, lacking a required field, or no JSON
Bodies == {"valid", "missing", "malformed"}

\* the retry-after header of the service, when it sends one
AbsentHeader == "absent"
RetryHeaders == {AbsentHeader, "1", "2"}

\* parseInt(retryAfter, 10) of the header strings that occur
parseInt(str) == CASE str = "1" -> 1 [] str = "2" -> 2 [] str = "60" -> 60

\* what the generation service answers: a status (NoStatus when no response
\* arrives) and, with 429, possibly a retry-after header
UpstreamStatuses == {StatusOk, StatusForbidden, StatusValidation, StatusRateLimit,
                     StatusError, NoStatus}
UpstreamAnswers ==
  {[status |-> st, retryAfter |-> h] : st \in UpstreamStatuses \ {StatusRateLimit},
                                         h \in {AbsentHeader}}
  \cup {[status |-> StatusRateLimit, retryAfter |-> h] : h \in RetryHeaders}

\* a NextResponse: status, Retry-After header, detail.retry_after of the
\* body, and whether the body carries the detail the service sent
Response(status, header, retry, detail) ==
  [status |-> status, retryAfter |-> header, retry_after |-> retry, detail |-> detail]

\* if (!user) return 401
Authorized_Open(user) == TRUE
Authorized(user) == user.signedIn

\* what each handler does with the body before it calls the service: the
\* status it answers, or NoStatus when it goes on
BodyCheck(route, body) ==
  CASE route = VideoRoute -> IF body = "valid" THEN NoStatus ELSE StatusBadRequest
    [] route = IntroRoute -> IF body = "valid" THEN NoStatus
                             ELSE IF body = "missing" THEN StatusBadRequest
                             ELSE StatusError
    [] route = LayoutRoute -> IF body = "malformed" THEN StatusError ELSE NoStatus
    [] route = LayoutRouteB -> IF body = "malformed" THEN StatusBadRequest ELSE NoStatus
    [] OTHER -> NoStatus

\* e.response?.status ?? 500
StatusOr500(up) == IF up.status = NoStatus THEN StatusError ELSE up.status

\* generate-video-content/route.ts:45-75 and part_000:33-74
RateLimitAnswer(up) ==
  LET retryAfter == IF up.retryAfter = AbsentHeader THEN "60" ELSE up.retryAfter
  IN Response(StatusRateLimit, retryAfter, parseInt(retryAfter), FALSE)

\* the answer of a handler to the answer of the service
Answer(route, up) ==
  IF up.status = StatusOk THEN Response(StatusOk, AbsentHeader, Undefined, TRUE)
  ELSE CASE route \in {VideoRoute, LayoutRouteB} ->
              IF StatusOr500(up) = StatusRateLimit THEN RateLimitAnswer(up)
              ELSE Response(StatusOr500(up), AbsentHeader, Undefined, up.status # NoStatus)
         [] route = LayoutRoute ->
              Response(StatusOr500(up), AbsentHeader, Undefined, up.status # NoStatus)
         [] route = IntroRoute ->
              Response(StatusError, AbsentHeader, Undefined, up.status # NoStatus)
         [] route = CourseRoute ->
              Response(StatusOr500(up), AbsentHeader, Undefined, up.status # NoStatus)
         [] route = UserRoute ->
              Response(StatusOr500(up), AbsentHeader, Undefined, up.status # NoStatus)

\* page.tsx:131-141 and Hero.tsx:75-104: the notification the client shows
\* for an answer, and the retry delay it shows with it
Notice(kind, retry) == [kind |-> kind, retryAfter |-> retry]
Notify(route, response) ==
  IF response.status = StatusOk THEN Notice("success", Undefined)
  ELSE CASE route = VideoRoute ->
              IF response.status = StatusRateLimit
              THEN Notice("Rate limit hit - try again in a few minutes", Undefined)
              ELSE Notice("failed", Undefined)
         [] route \in {LayoutRoute, LayoutRouteB} ->
              IF response.status = StatusRateLimit
              THEN Notice("rate limit countdown",
                          IF response.retry_after = Undefined THEN 60 ELSE response.retry_after)
              ELSE Notice("failed", Undefined)
         [] OTHER -> Notice("failed", Undefined)

\* the handler up to its call of the service
ProxyRequest(route, user, body) ==
  /\ px.stage = "idle"
  /\ LET rq == [stage |-> "answered", route |-> route, user |-> user, body |-> body,
                calls |-> <<>>,
                upstream |-> [status |-> NoStatus, retryAfter |-> AbsentHeader],
                response |-> Response(NoStatus, AbsentHeader, Undefined, FALSE),
                notice |-> Notice("none", Undefined)]
     IN px' = IF ~Authorized(user)
              THEN [rq EXCEPT !.response.status = StatusUnauthorized]
              ELSE IF BodyCheck(route, body) # NoStatus
              THEN [rq EXCEPT !.response.status = BodyCheck(route, body)]
              ELSE [rq EXCEPT !.stage = "upstream",
                              !.calls = <<[route |-> route, email |-> user.email]>>]
  /\ UNCHANGED <<pageVars, durVars, tl, hero>>

\* the service answers and the handler builds its response
UpstreamAnswered(up) ==
  /\ px.stage = "upstream"
  /\ px' = [px EXCEPT !.stage = "answered",
                      !.upstream = up,
                      !.response = Answer(px.route, up)]
  /\ UNCHANGED <<pageVars, durVars, tl, hero>>

\* the client receives the response and notifies the user
ClientNotified ==
  /\ px.stage = "answered"
  /\ px' = [px EXCEPT !.stage = "notified",
                      !.notice = Notify(px.route, px.response)]
  /\ UNCHANGED <<pageVars, durVars, tl, hero>>

NextProxy ==
  \/ \E route \in Routes, user \in Users, body \in Bodies : ProxyRequest(route, user, body)
  \/ \E up \in UpstreamAnswers : UpstreamAnswered(up)
  \/ ClientNotified

(***************************************************************************)
(* The course-request form of the home page (Hero.tsx): submissions, the   *)
(* in-flight guard and the retry countdown.  React renders the state that  *)
(* an event handler sets before the next event; state set after an await   *)
(* or by a timer is rendered a little later.                               *)
(***************************************************************************)
MaxSubmits == 2       \* layout requests the form issues

\* useState<number | null>(null)
NoCountdown == 0 - 1

\* Hero.tsx:80: detail?.retry_after ?? 60
DefaultRetry == 60

\* what a layout request ends with: the answer's kind and, for a 429, the
\* retry_after of its body (Undefined when it has none)
LayoutOutcomes ==
  {[kind |-> k, retry_after |-> Undefined] : k \in {"success", "max-limit", "422", "error"}}
  \cup {[kind |-> "429", retry_after |-> r] : r \in {Undefined, 1, 2}}

\* the state a render shows
Shown(h) == [loading |-> h.loading, retryAfter |-> h.retryAfter, userInput |-> h.userInput]

\* Hero.tsx:18-29: the form after mounting
FreshForm ==
  [mounted |-> TRUE,
   userInput |-> "",            \* useState("")
   loading |-> FALSE,           \* useState(false)
   retryAfter |-> NoCountdown,  \* useState<number | null>(null)
   inFlightRef |-> FALSE,       \* useRef(false)
   timers |-> 0,                \* intervals set and not cleared
   requests |-> 0,              \* layout requests in flight
   submitted |-> 0,             \* layout requests issued so far
   answer |-> [kind |-> "none", retry_after |-> Undefined],  \* the last outcome
   shown |-> [loading |-> FALSE, retryAfter |-> NoCountdown, userInput |-> ""]]

\* Hero.tsx:29: isDisabled of the rendered state
isDisabled(shown) == shown.loading \/ shown.userInput = "" \/ shown.retryAfter # NoCountdown

\* Hero.tsx:105-108: finally
Finally_KeepsGuard(h) == [h EXCEPT !.loading = FALSE]
Finally(h) == [h EXCEPT !.loading = FALSE, !.inFlightRef = FALSE]

\* Hero.tsx:32-43: startRetryCountdown
startRetryCountdown(h, seconds) ==
  [h EXCEPT !.retryAfter = seconds, !.timers = @ + 1]

\* Hero.tsx:36-40: the updater of the interval, for a countdown that goes on
NextCount_Stuck(prev) == prev
NextCount(prev) == prev - 1

\* Hero.tsx:130: the textarea changes
TypeInput(text) ==
  /\ hero.mounted
  /\ ~hero.shown.loading
  /\ text # hero.userInput
  /\ LET h == [hero EXCEPT !.userInput = text]
     IN hero' = [h EXCEPT !.shown = Shown(h)]
  /\ UNCHANGED <<pageVars, durVars, tl, px>>

\* Hero.tsx:131-136, 142 and 46-61: the button is clicked or Enter is
\* pressed while the rendered form is enabled; generate runs up to its await
Submit(via) ==
  /\ hero.mounted
  /\ ~isDisabled(hero.shown)
  /\ hero.submitted < MaxSubmits
  /\ IF hero.shown.userInput = "" \/ hero.inFlightRef
     THEN hero' = hero
     ELSE LET h == [hero EXCEPT !.inFlightRef = TRUE,
                                !.loading = TRUE,
                                !.retryAfter = NoCountdown,
                                !.requests = @ + 1,
                                !.submitted = @ + 1]
          IN hero' = [h EXCEPT !.shown = Shown(h)]
  /\ UNCHANGED <<pageVars, durVars, tl, px>>

\* Hero.tsx:63-108: the layout request is answered
LayoutAnswered(outcome) ==
  /\ hero.mounted
  /\ hero.requests > 0
  /\ LET h == [hero EXCEPT !.requests = @ - 1, !.answer = outcome]
         retrySeconds == IF outcome.retry_after = Undefined THEN DefaultRetry
                         ELSE outcome.retry_after
     IN hero' = IF outcome.kind = "429"
                THEN Finally(startRetryCountdown(h, retrySeconds))
                ELSE Finally(h)
  /\ UNCHANGED <<pageVars, durVars, tl, px>>

\* Hero.tsx:34-42: the interval fires
Tick ==
  /\ hero.mounted
  /\ hero.timers > 0
  /\ hero' = IF hero.retryAfter = NoCountdown \/ hero.retryAfter <= 1
             THEN [hero EXCEPT !.retryAfter = NoCountdown, !.timers = @ - 1]
             ELSE [hero EXCEPT !.retryAfter = NextCount(@)]
  /\ UNCHANGED <<pageVars, durVars, tl, px>>

\* React renders the state set after an await or by the interval
RenderForm ==
  /\ hero.mounted
  /\ hero.shown # Shown(hero)
  /\ hero' = [hero EXCEPT !.shown = Shown(hero)]
  /\ UNCHANGED <<pageVars, durVars, tl, px>>

NextForm ==
  \/ \E text \in {"", "topic"} : TypeInput(text)
  \/ \E via \in {"click", "enter"} : Submit(via)
  \/ \E outcome \in LayoutOutcomes : LayoutAnswered(outcome)
  \/ Tick
  \/ RenderForm

\* no request is on its way
NoRequest == [stage |-> "idle"]

\* the home page is not open
NoForm == [mounted |-> FALSE]

InitPage ==
  /\ courseId = NoCourse
  /\ courseDetail = NullCourse
  /\ generationStarted = FALSE
  /\ pass = [i \in Passes |-> IdlePass]

\* one load of the page, any content of the loaded course
Init ==
  /\ InitPage
  /\ \E ct \in Contents : server = [c \in Courses |-> ct]
  /\ loadsLeft = 1
  /\ InitDurations
  /\ runsLeft = 0
  /\ probesLeft = 0
  /\ tl = NoPlayer
  /\ px = NoRequest
  /\ hero = NoForm

Spec == Init /\ [][Next]_vars

\* every request that was issued is answered at some time
Completion ==
  \E i \in Passes :
    \/ FetchDone(i)
    \/ FetchFailed(i)
    \/ \E status \in Statuses : IntroDone(i, status)
    \/ \E status \in Statuses : ChapterDone(i, status)
    \/ RefreshDone(i)
    \/ RefreshFailed(i)

\* one load of the page whose requests all complete
SpecLoad == Init /\ [][Next]_vars /\ WF_vars(Completion)

\* a client session with up to MaxLoads course-identity changes, from the
\* state in which the page is mounted on a course (course identities are
\* interchangeable, so the first one is course 1) and the effect has issued
\* its fetch
InitSession ==
  /\ courseId = 1
  /\ courseDetail = NullCourse
  /\ generationStarted = FALSE
  /\ pass = [i \in Passes |-> IF i = 1
                                THEN [IdlePass EXCEPT !.pc = "fetch", !.courseId = 1,
                                                      !.fetchToast = "loading"]
                                ELSE IdlePass]
  /\ \E ct \in SessionContents : server = [c \in Courses |-> ct]
  /\ loadsLeft = MaxLoads - 1
  /\ InitDurations
  /\ runsLeft = 0
  /\ probesLeft = 0
  /\ tl = NoPlayer
  /\ px = NoRequest
  /\ hero = NoForm

SpecSession == InitSession /\ [][Next]_vars

\* one committed course whose slide sets are measured
InitResolver ==
  /\ InitPage
  /\ server = [c \in Courses |-> FullContent]
  /\ loadsLeft = 0
  /\ InitDurations
  /\ runsLeft = 1
  /\ probesLeft = 2 * MaxProbed
  /\ tl = NoPlayer
  /\ px = NoRequest
  /\ hero = NoForm

SpecDurations == InitResolver /\ [][NextDurations]_vars

\* the committed course changes (final refresh, identity change) while the
\* probes of an earlier run of the courseDetail effect are still pending
MaxRaceProbes == 3   \* probes of all runs together

InitRace ==
  /\ InitPage
  /\ server = [c \in Courses |-> FullContent]
  /\ loadsLeft = 0
  /\ InitDurations
  /\ runsLeft = 2               \* the earlier snapshot and the later one
  /\ probesLeft = MaxRaceProbes
  /\ tl = NoPlayer
  /\ px = NoRequest
  /\ hero = NoForm

SpecDurationsRace == InitRace /\ [][NextDurations]_vars

\* a course with its slides and a committed duration map, no Player yet
InitTimeline ==
  /\ InitPage
  /\ server = [c \in Courses |-> FullContent]
  /\ loadsLeft = 0
  /\ InitDurations
  /\ runsLeft = 0
  /\ probesLeft = 0
  /\ px = NoRequest
  /\ hero = NoForm
  /\ \/ \E slides \in SlideSets : \E m \in DurationMaps(slides) :
          tl = [NoPlayer EXCEPT !.course = slides, !.durationBySlideId = m]
     \/ \E slides \in CaptionedSets :
          tl = [NoPlayer EXCEPT !.course = slides, !.durationBySlideId = CaptionedMap(slides)]

SpecTimeline == InitTimeline /\ [][NextTimeline]_vars

\* nothing but the proxy routes
InitProxy ==
  /\ InitPage
  /\ server = [c \in Courses |-> FullContent]
  /\ loadsLeft = 0
  /\ InitDurations
  /\ runsLeft = 0
  /\ probesLeft = 0
  /\ tl = NoPlayer
  /\ px = NoRequest
  /\ hero = NoForm

SpecProxy == InitProxy /\ [][NextProxy]_vars

\* the home page with its form
InitForm ==
  /\ InitPage
  /\ server = [c \in Courses |-> FullContent]
  /\ loadsLeft = 0
  /\ InitDurations
  /\ runsLeft = 0
  /\ probesLeft = 0
  /\ tl = NoPlayer
  /\ px = NoRequest
  /\ hero = FreshForm

SpecForm == InitForm /\ [][NextForm]_vars

\* the interval fires every second and React renders pending state
SpecFormLive == InitForm /\ [][NextForm]_vars /\ WF_vars(Tick) /\ WF_vars(RenderForm)

\* ------------------------------------------------- what the claims speak of
\* the layout chapters without a slide in a fetched course, in layout order
LayoutGaps(course) ==
  SelectSeq(Layout, LAMBDA ch : \A s \in course.chapterContentSlide : s # ch)
IntroGap(course) == course.courseIntroSlides \in {"absent", "empty"}
HasGap(course) == IntroGap(course) \/ Len(LayoutGaps(course)) > 0
CalledChapterIds(p) == [k \in 1..Len(ChapterCalls(p)) |-> ChapterCalls(p)[k].chapterId]
IsPrefix(s, t) == Len(s) <= Len(t) /\ s = SubSeq(t, 1, Len(s))
RateLimitedAt(p) == {k \in 1..Len(p.statuses) : p.statuses[k] = StatusRateLimit}
FailedAt(p) == {k \in 1..Len(p.statuses) : p.statuses[k] \notin {StatusOk, StatusRateLimit}}
\* both task groups of the pass have finished
TasksSettled(p) == ~p.introPending /\ ~ChapterInFlight(p) /\ p.idx = 0
IntroFailed(p) ==
  p.needsIntro /\ ~p.introPending /\ server[p.courseId].courseIntroSlides # "present"

\* C1: when the k-th chapter request of a pass is answered 429, no chapter
\* request after the k-th is ever issued in that pass, and the final refresh
\* is still issued, exactly once, as soon as the intro task has finished too.
C1_RateLimitAbort ==
  \A i \in Passes : \A k \in RateLimitedAt(pass[i]) :
    /\ Len(ChapterCalls(pass[i])) = k
    /\ Len(RefreshCalls(pass[i])) <= 1
    /\ ~pass[i].introPending => Len(RefreshCalls(pass[i])) = 1

C1_Witness ==
  \E i \in Passes :
    /\ Len(LayoutGaps(pass[i].course)) >= 3
    /\ Len(pass[i].statuses) = 2
    /\ pass[i].statuses[2] = StatusRateLimit
    /\ Len(RefreshCalls(pass[i])) = 1
    /\ pass[i].pc = "done"

\* C2: a chapter request that fails with a status other than 429, or with no
\* status at all, does not stop the loop: the next missing chapter is
\* requested, and when no request was rate limited every missing chapter has
\* been requested in order and the final refresh is issued exactly once.
C2_PartialFailure ==
  \A i \in Passes :
    LET p == pass[i]
        gaps == LayoutGaps(p.course)
    IN /\ \A k \in FailedAt(p) :
            k < Len(gaps) =>
              /\ Len(ChapterCalls(p)) > k
              /\ ChapterCalls(p)[k + 1].chapterId = gaps[k + 1]
       /\ (FailedAt(p) # {} /\ RateLimitedAt(p) = {} /\ TasksSettled(p)) =>
            /\ CalledChapterIds(p) = gaps
            /\ Len(RefreshCalls(p)) = 1

C2_Witness ==
  \E i \in Passes :
    /\ Len(LayoutGaps(pass[i].course)) >= 3
    /\ Len(pass[i].statuses) = 3
    /\ pass[i].statuses[1] = StatusError
    /\ pass[i].statuses[2] = NoStatus
    /\ Len(RefreshCalls(pass[i])) = 1

\* C3: at most one generate-video-content request of a pass is in flight, a
\* request is issued only when all earlier ones are answered, and the
\* requests follow the missing chapters in layout order.
C3_Sequential ==
  \A i \in Passes :
    /\ NumChaptersInFlight(pass[i]) <= 1
    /\ Len(ChapterCalls(pass[i])) <= Len(pass[i].statuses) + 1
    /\ IsPrefix(CalledChapterIds(pass[i]), LayoutGaps(pass[i].course))

\* the intro request and the second chapter request are in flight together
C3_Witness ==
  \E i \in Passes :
    /\ pass[i].introPending
    /\ ChapterInFlight(pass[i])
    /\ Len(pass[i].statuses) = 1

\* C4: a pass that detects a gap issues exactly one refresh, not before the
\* intro task and the chapter task group have both finished, and issues it
\* as soon as they have, whatever their outcomes.
C4_FinalRefresh ==
  \A i \in Passes :
    LET p == pass[i]
    IN /\ Len(RefreshCalls(p)) <= 1
       /\ Len(RefreshCalls(p)) = 1 =>
            /\ TasksSettled(p)
            /\ p.calls[Len(p.calls)] = RefreshCall
       /\ (p.started /\ HasGap(p.course) /\ TasksSettled(p)) =>
            Len(RefreshCalls(p)) = 1

\* every task of a pass with an intro gap and several chapter gaps failed
C4_Witness ==
  \E i \in Passes :
    /\ IntroFailed(pass[i])
    /\ Len(LayoutGaps(pass[i].course)) >= 2
    /\ Len(pass[i].statuses) = Len(LayoutGaps(pass[i].course))
    /\ \A k \in 1..Len(pass[i].statuses) : pass[i].statuses[k] # StatusOk
    /\ Len(RefreshCalls(pass[i])) = 1

\* C5: generateMissingContent on a course with a non-empty intro and a slide
\* for every layout chapter issues no request at all.
C5_NoOp ==
  \A i \in Passes :
    (/\ pass[i].started
     /\ pass[i].course.courseIntroSlides = "present"
     /\ \A k \in 1..NumChapters : Layout[k] \in pass[i].course.chapterContentSlide)
    => pass[i].calls = <<>> /\ pass[i].pc = "done"

C5_Witness ==
  \E i \in Passes :
    /\ pass[i].started
    /\ pass[i].course.courseIntroSlides = "present"
    /\ pass[i].course.chapterContentSlide = ChapterIds
    /\ pass[i].pc = "done"

\* C6: a pass requests the intro exactly when the fetched course's intro is
\* empty or absent, and requests only chapters without a slide in the fetched
\* snapshot, taking them in layout order.
C6_GapDetection ==
  \A i \in Passes :
    pass[i].started =>
      /\ Len(IntroCalls(pass[i])) = (IF IntroGap(pass[i].course) THEN 1 ELSE 0)
      /\ \A k \in 1..Len(ChapterCalls(pass[i])) :
           ChapterCalls(pass[i])[k].chapterId \notin pass[i].course.chapterContentSlide
      /\ IsPrefix(CalledChapterIds(pass[i]), LayoutGaps(pass[i].course))
      /\ (Len(LayoutGaps(pass[i].course)) > 0 => Len(ChapterCalls(pass[i])) > 0)

\* intro absent, some chapters generated, the others requested to the last
C6_Witness ==
  \E i \in Passes :
    /\ pass[i].started
    /\ pass[i].course.courseIntroSlides = "absent"
    /\ pass[i].course.chapterContentSlide = {Layout[2]}
    /\ CalledChapterIds(pass[i]) = LayoutGaps(pass[i].course)

\* C7: no request is issued twice in a pass, and a pass that detected a gap
\* has issued (1 if the intro is missing) + (missing chapters) + 1 requests
\* when it ends, less the chapters skipped after a 429.
C7_CallCount ==
  \A i \in Passes :
    LET p == pass[i]
        gaps == LayoutGaps(p.course)
        skipped == IF RateLimitedAt(p) = {} THEN 0
                   ELSE Len(gaps) - (CHOOSE k \in RateLimitedAt(p) :
                                       \A j \in RateLimitedAt(p) : k <= j)
    IN /\ \A a, b \in 1..Len(p.calls) : a # b => p.calls[a] # p.calls[b]
       /\ (p.started /\ HasGap(p.course) /\ p.pc \in {"refresh", "done"}) =>
            Len(p.calls) = (IF IntroGap(p.course) THEN 1 ELSE 0) + Len(gaps) + 1 - skipped

\* intro missing, three chapters missing, the first one rate limited
C7_Witness ==
  \E i \in Passes :
    /\ pass[i].pc = "done"
    /\ IntroGap(pass[i].course)
    /\ Len(LayoutGaps(pass[i].course)) >= 3
    /\ pass[i].statuses = <<StatusRateLimit>>
    /\ Len(pass[i].calls) = 3

C9_CommittedCourseIsCurrent ==
  courseDetail # NullCourse => courseDetail.courseId = courseId

\* C10: which chapter requests are issued depends on the chapter answers
\* only, never on the state or outcome of the intro request, and the intro
\* request is issued whatever happens to the chapters.
C10_Isolation ==
  \A i \in Passes :
    LET p == pass[i]
        gaps == LayoutGaps(p.course)
        expected == IF RateLimitedAt(p) # {}
                    THEN CHOOSE k \in RateLimitedAt(p) : \A j \in RateLimitedAt(p) : k <= j
                    ELSE IF Len(p.statuses) < Len(gaps) THEN Len(p.statuses) + 1
                    ELSE Len(gaps)
    IN p.started =>
         /\ CalledChapterIds(p) = SubSeq(gaps, 1, expected)
         /\ IntroGap(p.course) => Len(IntroCalls(p)) = 1
         /\ p.introPending => Len(RefreshCalls(p)) = 0

\* the intro request failed and every missing chapter was still requested
C10_Witness ==
  \E i \in Passes :
    /\ IntroFailed(pass[i])
    /\ Len(LayoutGaps(pass[i].course)) >= 2
    /\ CalledChapterIds(pass[i]) = LayoutGaps(pass[i].course)
    /\ RateLimitedAt(pass[i]) = {}
    /\ pass[i].pc = "done"

(***************************************************************************)
(* Duration resolution                                                     *)
(***************************************************************************)
ProbeSets == {"intro", "chapter"}
DurationsOf(q, set) == IF set = "intro" THEN q.introDurations ELSE q.chapterDurations
SlideIdsOf(q, set) == {SlidesOf(q, set)[k].slideId : k \in 1..Len(SlidesOf(q, set))}
Settled(q) == q.state \in {"done", "rejected"}

\* C11: whatever the slides and the outcomes of their probes, the duration
\* resolution of the course page completes with a mapping: no run of the
\* effect ends in a rejected promise.
C11_ResolverNeverFails ==
  \A r \in Runs : run[r].state # "rejected"

\* C12: in the duration map a settled run produced, every slide without an
\* audioFileUrl and every slide whose probe failed has exactly FPS * 6
\* frames.
C12_ResolverDefault ==
  \A r \in Runs, set \in ProbeSets :
    Settled(run[r]) =>
      \A k \in 1..Len(SlidesOf(run[r], set)) :
        LET slide == SlidesOf(run[r], set)[k]
            m == DurationsOf(run[r], set)
        IN (slide.audioFileUrl = "absent" \/ ProbesOf(run[r], set)[k] = Rejected)
             => /\ slide.slideId \in DOMAIN m
                /\ m[slide.slideId] = FPS * 6

\* C13: a duration map a run produced for a slide set has exactly the
\* slideIds of that set as its keys and integers >= 1 as its values, and it
\* exists only once every probe of the run has resolved; a committed map is
\* always such a map of a completed run.
C13_CompleteAndPositive ==
  /\ \A r \in Runs, set \in ProbeSets :
       LET m == DurationsOf(run[r], set)
       IN m # NullMap =>
            /\ run[r].state = "done"
            /\ DOMAIN m = SlideIdsOf(run[r], set)
            /\ \A id \in DOMAIN m : m[id] \in Nat /\ m[id] >= 1
            /\ \A t \in ProbeSets : \A k \in 1..Len(ProbesOf(run[r], t)) :
                 ProbesOf(run[r], t)[k].st = "resolved"
  /\ introDurationBySlideId # NullMap =>
       \E r \in Runs : run[r].state = "done" /\ introDurationBySlideId = run[r].introDurations
  /\ chapterDurationBySlideId # NullMap =>
       \E r \in Runs : run[r].state = "done" /\ chapterDurationBySlideId = run[r].chapterDurations

C13_Witness ==
  \E r \in Runs :
    /\ run[r].state = "done"
    /\ Len(run[r].intro) >= 2
    /\ Len(run[r].chapter) >= 1
    /\ introDurationBySlideId = run[r].introDurations
    /\ introDurationBySlideId # NullMap
    /\ chapterDurationBySlideId # NullMap

\* n is cs hundredths of a second in frames, rounded to the nearest integer
\* (halves upwards)
RoundsTo(cs, n) == 100 * n - 50 <= cs * FPS /\ cs * FPS < 100 * n + 50

\* C14: the map entry of a slide whose probe succeeded with s seconds is
\* max(1, round(s * FPS)): 2.3 s gives 69 frames, a length that rounds to 0
\* frames gives 1.
C14_Formula ==
  \A r \in Runs, set \in ProbeSets :
    run[r].state = "done" =>
      \A k \in 1..Len(SlidesOf(run[r], set)) :
        LET cs == ProbesOf(run[r], set)[k].cs
            e == DurationsOf(run[r], set)[SlidesOf(run[r], set)[k].slideId]
        IN /\ \E n \in 0..(cs * FPS) : RoundsTo(cs, n) /\ e = (IF n = 0 THEN 1 ELSE n)
           /\ cs = 230 => e = 69

C14_Witness ==
  \E r \in Runs :
    /\ run[r].state = "done"
    /\ \E k, j \in 1..Len(run[r].intro) :
         /\ run[r].introProbe[k].cs = 230
         /\ introDurationBySlideId[run[r].intro[k].slideId] = 69
         /\ run[r].introProbe[j].cs = 1
         /\ introDurationBySlideId[run[r].intro[j].slideId] = 1

(***************************************************************************)
(* Timeline and captions                                                   *)
(***************************************************************************)
\* the duration of the k-th slide, an entry absent from the map counting
\* as 180 frames
DurAt(slides, m, k) ==
  IF slides[k].slideId \in DOMAIN m THEN m[slides[k].slideId] ELSE 180

\* the first frame of the k-th slide: the durations of the slides before it
RECURSIVE StartOf(_, _, _)
StartOf(slides, m, k) ==
  IF k = 1 THEN 0 ELSE StartOf(slides, m, k - 1) + DurAt(slides, m, k - 1)

TotalDuration(slides, m) == StartOf(slides, m, Len(slides) + 1)

\* C15: for a frame f in [0, totalDuration), getSlideAtFrame returns the
\* one slide whose interval [start, start + duration) holds f, with
\* localFrame = f - startFrame; the intervals follow each other in slide
\* order from frame 0 and end at totalDuration.
C15_Partition ==
  (tl.mounted /\ tl.frame < TotalDuration(tl.slides, tl.durationBySlideId)) =>
    LET k == tl.at.slide
        Start(j) == StartOf(tl.slides, tl.durationBySlideId, j)
    IN /\ k \in 1..Len(tl.slides)
       /\ tl.at.startFrame = Start(k)
       /\ tl.at.duration = DurAt(tl.slides, tl.durationBySlideId, k)
       /\ tl.at.startFrame <= tl.frame
       /\ tl.frame < tl.at.startFrame + tl.at.duration
       /\ tl.at.localFrame = tl.frame - tl.at.startFrame
       /\ \A j \in 1..Len(tl.slides) :
            (Start(j) <= tl.frame /\ tl.frame < Start(j + 1)) => j = k

C15_Witness ==
  /\ tl.mounted
  /\ Len(tl.slides) = 3
  /\ tl.at.slide = 2
  /\ tl.frame = tl.at.startFrame
  /\ tl.slides[1].slideId \notin DOMAIN tl.durationBySlideId
  /\ tl.slides[2].slideId \in DOMAIN tl.durationBySlideId
  /\ tl.frame = 180

\* C16: at frame totalDuration - 1 and at every later frame getSlideAtFrame
\* returns the last slide with localFrame = lastSlideDuration - 1 and
\* startFrame = totalDuration - lastSlideDuration; at every frame
\* localFrame lies in [0, duration - 1].
C16_OverrunClamp ==
  tl.mounted =>
    LET n == Len(tl.slides)
        total == TotalDuration(tl.slides, tl.durationBySlideId)
        lastDur == DurAt(tl.slides, tl.durationBySlideId, n)
    IN /\ tl.frame >= total - 1 =>
            /\ tl.at.slide = n
            /\ tl.at.localFrame = lastDur - 1
            /\ tl.at.startFrame = total - lastDur
       /\ 0 <= tl.at.localFrame
       /\ tl.at.localFrame <= tl.at.duration - 1

C16_Witness ==
  /\ tl.mounted
  /\ Len(tl.slides) >= 2
  /\ tl.frame > TotalDuration(tl.slides, tl.durationBySlideId)
  /\ tl.at.slide = Len(tl.slides)

\* the chunks of the shown slide that have both bounds and cover the local
\* frame, bounds included
Covering ==
  LET chunks == tl.slides[tl.at.slide].chunks
  IN {k \in 1..Len(chunks) :
        /\ chunks[k].start # Undefined
        /\ chunks[k].end # Undefined
        /\ chunks[k].start * FPS <= tl.at.localFrame * 100
        /\ tl.at.localFrame * 100 <= chunks[k].end * FPS}

\* C17: the caption shown is the text of the first chunk, in chunk order,
\* with start <= localFrame / fps <= end, and nothing when there is no such
\* chunk; a single chunk from 1 s to 2 s shows its text at local frames 30
\* and 60 and nothing at local frame 61.
C17_ActiveCaption ==
  tl.mounted =>
    LET chunks == tl.slides[tl.at.slide].chunks
    IN /\ Covering = {} => tl.caption = NoCaption
       /\ Covering # {} =>
            \E k \in Covering : /\ \A j \in Covering : k <= j
                                /\ tl.caption = chunks[k].text
       /\ (Len(chunks) = 1 /\ chunks[1].start = 100 /\ chunks[1].end = 200) =>
            /\ tl.at.localFrame \in {30, 60} => tl.caption = chunks[1].text
            /\ tl.at.localFrame = 61 => tl.caption = NoCaption

C17_Witness ==
  /\ tl.mounted
  /\ tl.at.slide = 2
  /\ tl.at.localFrame = 60
  /\ Covering = {1, 2}
  /\ tl.slides[2].chunks[1].end = 200
  /\ tl.caption = tl.slides[2].chunks[1].text

\* C18: the length the session gives the Player, for the whole slide set
\* and for the slides of one chapter, is the end offset of the last slide
\* in the composer's timeline.
C18_SameDefault ==
  tl.mounted =>
    /\ tl.durationInFrames = TotalDuration(tl.slides, tl.durationBySlideId)
    /\ tl.frame >= tl.durationInFrames - 1 =>
         /\ tl.at.slide = Len(tl.slides)
         /\ tl.at.startFrame + tl.at.duration = tl.durationInFrames

C18_Witness ==
  /\ tl.mounted
  /\ Len(tl.slides) = 2
  /\ Len(tl.course) = 3
  /\ tl.slides[1].slideId \in DOMAIN tl.durationBySlideId
  /\ tl.slides[2].slideId \notin DOMAIN tl.durationBySlideId
  /\ tl.frame = tl.durationInFrames - 1

(***************************************************************************)
(* Course replacement and fetch failures                                   *)
(***************************************************************************)
FetchCompletes(i) == pass[i].fetchToast = "loading" /\ pass'[i].fetchToast = "success"
RefreshCompletes(i) == pass[i].refreshToast = "loading" /\ pass'[i].refreshToast = "success"
RequestAnswered(i) ==
  \/ pass[i].introPending /\ ~pass'[i].introPending
  \/ Len(pass'[i].statuses) > Len(pass[i].statuses)
Fetched(i) == CourseOf(pass[i].courseId, server[pass[i].courseId])

\* C19: the committed course changes only in a step that completes a course
\* fetch (the initial one or the final refresh) and then becomes the whole
\* fetched object; no answer to an intro or chapter request changes it; the
\* snapshot a pass detects its gaps in is the course its initial fetch
\* returned and stays the same for the rest of the pass.
C19_WholeObject ==
  [][/\ courseDetail' # courseDetail =>
          \E i \in Passes : /\ FetchCompletes(i) \/ RefreshCompletes(i)
                            /\ courseDetail' = Fetched(i)
     /\ \A i \in Passes :
          /\ (FetchCompletes(i) \/ RefreshCompletes(i)) => courseDetail' = Fetched(i)
          /\ RequestAnswered(i) => courseDetail' = courseDetail
          /\ FetchCompletes(i) => pass'[i].course = Fetched(i)
          /\ pass[i].pc \in {"gen", "refresh", "done"} => pass'[i].course = pass[i].course
          /\ pass'[i].started =>
               /\ pass'[i].missingChapters = LayoutGaps(pass'[i].course)
               /\ pass'[i].needsIntro = IntroGap(pass'[i].course)
               /\ IsPrefix(CalledChapterIds(pass'[i]), LayoutGaps(pass'[i].course))]_vars

C19_Witness ==
  \E i \in Passes :
    /\ pass[i].pc = "gen"
    /\ Len(pass[i].statuses) >= 1
    /\ courseDetail = pass[i].course
    /\ courseDetail # Fetched(i)

\* C20: a failed initial fetch is reported and ends the load: no generation
\* request, no refresh and no further fetch is issued and no course is
\* committed; a failed final refresh is reported, leaves the committed course
\* as it was and is not retried.
C20_FetchFailuresTerminal ==
  /\ [](\A i \in Passes :
          /\ pass[i].fetchToast = "error" =>
               /\ pass[i].pc = "done"
               /\ pass[i].calls = <<>>
               /\ ~pass[i].started
               /\ pass[i].refreshToast = "none"
               /\ courseDetail = NullCourse
          /\ pass[i].refreshToast = "error" =>
               /\ pass[i].pc = "done"
               /\ Len(RefreshCalls(pass[i])) = 1)
  /\ [][\A i \in Passes :
          /\ pass[i].pc = "done" => pass'[i] = pass[i]
          /\ (pass[i].fetchToast = "loading" /\ pass'[i].fetchToast = "error") =>
               /\ courseDetail' = courseDetail
               /\ server' = server
               /\ \A j \in Passes \ {i} : pass'[j] = pass[j]
          /\ (pass[i].refreshToast = "loading" /\ pass'[i].refreshToast = "error") =>
               /\ courseDetail' = courseDetail
               /\ \A j \in Passes \ {i} : pass'[j] = pass[j]]_vars

C20_Witness ==
  \E i \in Passes :
    /\ pass[i].refreshToast = "error"
    /\ pass[i].pc = "done"
    /\ courseDetail = pass[i].course
    /\ courseDetail # Fetched(i)

(***************************************************************************)
(* Proxy routes and notifications                                          *)
(***************************************************************************)
GenerationRoutes == {LayoutRoute, LayoutRouteB, VideoRoute}

\* C21: when a course-layout or chapter-content request fails with a rate
\* limit, the notification the user is shown carries the numeric
\* retry-after value of the proxy's answer.
C21_RetryDelaySurfaced ==
  (/\ px.stage = "notified"
   /\ px.route \in GenerationRoutes
   /\ px.response.status = StatusRateLimit)
    => /\ px.notice.retryAfter # Undefined
       /\ px.notice.retryAfter = px.response.retry_after

\* C22: a 429 of the service to a generate-video-content or
\* generate-course-layout call is answered 429 with a Retry-After header
\* equal to the service's retry-after ("60" when it sent none) and with
\* detail.retry_after the integer of that value; a 422 is answered 422 with
\* the validation detail; every other error keeps its status, 500 when
\* there was no response.
C22_Proxy429Contract ==
  (/\ px.stage \in {"answered", "notified"}
   /\ px.route \in GenerationRoutes
   /\ px.calls # <<>>
   /\ px.upstream.status # StatusOk)
    => LET up == px.upstream
           sent == IF up.retryAfter = AbsentHeader THEN "60" ELSE up.retryAfter
       IN /\ up.status = StatusRateLimit =>
               /\ px.response.status = StatusRateLimit
               /\ px.response.retryAfter = sent
               /\ px.response.retry_after = (IF sent = "60" THEN 60 ELSE IF sent = "2" THEN 2 ELSE 1)
          /\ up.status = StatusValidation =>
               /\ px.response.status = StatusValidation
               /\ px.response.detail
          /\ up.status \notin {StatusRateLimit, StatusValidation} =>
               px.response.status = (IF up.status = NoStatus THEN 500 ELSE up.status)

\* C23: on every route a request without an authenticated user is answered
\* 401 and causes no call of the service; every call of the service carries
\* the e-mail address of the authenticated caller.
C23_AuthGate ==
  px.stage # "idle" =>
    /\ ~px.user.signedIn => (px.response.status = 401 /\ px.calls = <<>>)
    /\ \A k \in 1..Len(px.calls) :
         /\ px.user.signedIn
         /\ px.calls[k].email = px.user.email
         /\ px.calls[k].route = px.route

C23_Witness ==
  /\ px.stage = "notified"
  /\ px.route = VideoRoute
  /\ px.user = NullUser
  /\ px.body = "valid"
  /\ px.response.status = StatusUnauthorized
  /\ px.calls = <<>>

(***************************************************************************)
(* Independence of the two slide sets                                      *)
(***************************************************************************)
\* C24: the duration maps of the intro set and of the chapter set are
\* resolved independently: once a run has ended, a slide set whose own
\* probes all succeeded has its duration map, whatever happened to the
\* probes of the other set.
C24_SetsIndependent ==
  \A r \in Runs, set \in ProbeSets :
    (/\ Settled(run[r])
     /\ Len(SlidesOf(run[r], set)) > 0
     /\ \A k \in 1..Len(ProbesOf(run[r], set)) : ProbesOf(run[r], set)[k].st = "resolved")
      => /\ DurationsOf(run[r], set) # NullMap
         /\ (IF set = "intro" THEN introDurationBySlideId ELSE chapterDurationBySlideId)
              = DurationsOf(run[r], set)

(***************************************************************************)
(* Termination of a load                                                   *)
(***************************************************************************)
Quiescent == \A i \in Passes : pass[i].pc \in {"idle", "done"}
RefreshEnds(i) == pass[i].pc = "refresh" /\ pass'[i].pc # "refresh"

\* C25: when every request completes, a load of the course page comes to
\* rest; the step that ends the final refresh ends the pass and issues no
\* request, and a pass that has ended issues nothing more, even if the
\* refreshed course still has gaps.
C25_NoGenerationLoop ==
  /\ <>[]Quiescent
  /\ [][\A i \in Passes :
          /\ RefreshEnds(i) =>
               /\ pass'[i].pc = "done"
               /\ \A j \in Passes : pass'[j].calls = pass[j].calls
               /\ \A j \in Passes \ {i} : pass'[j].pc = pass[j].pc
          /\ pass[i].pc = "done" => pass'[i] = pass[i]]_vars

C25_Witness ==
  \E i \in Passes :
    /\ pass[i].pc = "done"
    /\ pass[i].refreshToast = "success"
    /\ courseDetail = Fetched(i)
    /\ HasGap(courseDetail)
    /\ Len(LayoutGaps(courseDetail)) >= 1
    /\ Quiescent

\* a layout request of the form is answered in this step
LayoutAnswers == hero.mounted /\ hero'.mounted /\ hero'.requests < hero.requests

\* a layout request of the form is issued in this step
LayoutIssued == hero.mounted /\ hero'.mounted /\ hero'.requests > hero.requests

\* C26: whatever is clicked or typed in the course-request form, at most one
\* layout request is in flight, the in-flight guard is set exactly while it
\* is, and every outcome of the request clears the guard and the loading
\* state, after which a submission is issued again when one is made.
C26_DoubleSubmitGuard ==
  /\ [](hero.mounted =>
          /\ hero.requests <= 1
          /\ hero.inFlightRef = (hero.requests = 1)
          /\ hero.loading = (hero.requests = 1))
  /\ [][/\ LayoutAnswers => ~hero'.inFlightRef /\ ~hero'.loading
        /\ LayoutIssued => hero.requests = 0 /\ ~hero.inFlightRef]_vars

\* a second request is in flight after the first one was refused with a 422
C26_Witness ==
  /\ hero.mounted
  /\ hero.submitted = 2
  /\ hero.requests = 1
  /\ hero.answer.kind = "422"

\* the retry countdown of the form shows a value
CountdownActive == hero.mounted /\ hero.retryAfter # NoCountdown

\* the retry delay of the last answer, 60 when it gave none
AnsweredDelay(h) ==
  IF h.answer.retry_after = Undefined THEN 60 ELSE h.answer.retry_after

\* C30: a 429 answer to the layout request starts the countdown at the retry
\* delay of the answer (60 when it gives none); while the value is non-null
\* the rendered form is disabled and exactly one timer exists; the value
\* only changes by going down by one, or from at most 1 to null with the
\* timer cleared; no layout request is issued during the countdown; and
\* every countdown ends with the value null, no timer, and a rendered form
\* that is disabled only when its text is empty.
C30_RetryCountdown ==
  /\ [](hero.mounted =>
          /\ hero.timers <= 1
          /\ (hero.retryAfter # NoCountdown) = (hero.timers = 1)
          /\ hero.retryAfter # NoCountdown => isDisabled(hero.shown))
  /\ [][/\ LayoutAnswers /\ hero'.answer.kind = "429" =>
             hero'.retryAfter = AnsweredDelay(hero')
        /\ CountdownActive /\ hero'.retryAfter # hero.retryAfter =>
             \/ hero.retryAfter > 1 /\ hero'.retryAfter = hero.retryAfter - 1
             \/ /\ hero.retryAfter <= 1
                /\ hero'.retryAfter = NoCountdown
                /\ hero'.timers = 0
        /\ LayoutIssued => ~CountdownActive /\ hero.timers = 0]_vars
  /\ CountdownActive ~>
       /\ hero.retryAfter = NoCountdown
       /\ hero.timers = 0
       /\ isDisabled(hero.shown) = (hero.shown.userInput = "")

\* the countdown that started at 60 has run out and the form is enabled
C30_Witness ==
  /\ hero.mounted
  /\ hero.answer.kind = "429"
  /\ hero.answer.retry_after = Undefined
  /\ hero.requests = 0
  /\ hero.retryAfter = NoCountdown
  /\ hero.timers = 0
  /\ ~isDisabled(hero.shown)

\* the invocation of getCourseDetail that the current course identity started
CurrentPass == pass[Epoch]

\* C27: whenever the initial fetch for the current course identity has
\* succeeded, gap detection has run for that course; a late fetch for an
\* earlier identity never uses up the generation-attempted flag.
C27_CurrentCourseGetsItsPass ==
  /\ Epoch > 0 /\ CurrentPass.course # NullCourse => CurrentPass.started
  /\ \A i \in Passes :
       (pass[i].started /\ pass[i].epoch = Epoch) => i = Epoch

\* the run of the courseDetail effect for the currently committed course
StartedRuns == {r \in Runs : run[r].state # "idle"}
LatestRun == run[Cardinality(StartedRuns)]

\* C28: once every duration computation has finished (here: fulfilled), the
\* committed map of each non-empty slide set of the committed course has
\* exactly the slides of that set, so a computation for an earlier snapshot
\* has not overwritten it.
C28_MapsMatchCommittedCourse ==
  (StartedRuns # {} /\ \A r \in StartedRuns : run[r].state = "done") =>
    /\ Len(LatestRun.intro) > 0 =>
         /\ introDurationBySlideId # NullMap
         /\ DOMAIN introDurationBySlideId = SlideIdsOf(LatestRun, "intro")
    /\ Len(LatestRun.chapter) > 0 =>
         /\ chapterDurationBySlideId # NullMap
         /\ DOMAIN chapterDurationBySlideId = SlideIdsOf(LatestRun, "chapter")

\* C29: at every frame before the end of the video the composition made of
\* Sequences shows exactly one slide, and it is the slide, the local frame
\* and the caption that the composition built on getSlideAtFrame shows.
C29_CompositionsAgree ==
  (tl.mounted /\ tl.frame < TotalDuration(tl.slides, tl.durationBySlideId)) =>
    tl.sequences = {[slide |-> tl.at.slide,
                     localFrame |-> tl.at.localFrame,
                     caption |-> tl.caption]}

\* both show a caption on the second slide
C29_Witness ==
  /\ tl.mounted
  /\ tl.frame < TotalDuration(tl.slides, tl.durationBySlideId)
  /\ tl.at.slide = 2
  /\ tl.at.localFrame > 0
  /\ tl.caption # NoCaption
  /\ \E shown \in tl.sequences : shown.slide = 2 /\ shown.caption = tl.caption

TypeOK ==
  /\ courseId \in Courses \cup {NoCourse}
  /\ generationStarted \in BOOLEAN
  /\ server \in [Courses -> Contents]
  /\ loadsLeft \in 0..MaxLoads
  /\ \A i \in Passes : pass[i].pc \in {"idle", "fetch", "gen", "refresh", "done"}
  /\ \A i \in Passes : pass[i].fetchToast \in {"none", "loading", "success", "error"}
  /\ \A i \in Passes : pass[i].refreshToast \in {"none", "loading", "success", "error"}
  /\ runsLeft \in 0..MaxRuns
  /\ \A r \in Runs : run[r].state \in {"idle", "running", "done", "rejected"}
  /\ tl.mounted \in BOOLEAN
  /\ tl.frame \in Nat
====
